---- MODULE Spec2Model ----
(***************************************************************************)
(* Tournament lifecycle and wallet ledger of secure-game-arena.            *)
(*                                                                         *)
(* The application is a set of browser clients that read and write a       *)
(* shared document store.  Every handler is split at its awaits: a read    *)
(* of the store, the computation on the values read, and each write are    *)
(* separate steps, so that steps of different clients interleave the way   *)
(* the store allows.  Time is counted in seconds.                          *)
(***************************************************************************)
EXTENDS Integers, Sequences, FiniteSets, TLC

(***************************************************************************)
(* Bounds of the model.                                                    *)
(***************************************************************************)
NumTournaments == 2
NumSessions == 2
MaxNow == 1200
MaxLogs == 2
NumUsers == 2
NumClients == 3
NumRequests == 1
MaxRewards == 1
MaxFailedLogins == 1
NumAdmins == 2
MaxMigrations == 2

(***************************************************************************)
(* Program constants.                                                      *)
(***************************************************************************)
bufferInSeconds == 30
LiveMinutes == 10
DefaultEntryFee == 0
DefaultMaxParticipants == 100

NoTime == -1
\* a stored tournamentDate that is no Timestamp: it is truthy and has no toDate
MalformedDate == -2
NoTid == 0
Tids == 1..NumTournaments
Sessions == 1..NumSessions
Uids == 1..NumUsers
Clients == 1..NumClients
\* the signed-in user of a client: users 1..NumUsers, then again from user 1
UserOf(c) == ((c - 1) % NumUsers) + 1
\* every browser session runs the status polling of App
AllSessions == Sessions \cup Clients
Rids == 1..NumRequests
\* the admin clients with a request page open
Admins == 1..NumAdmins
NoRid == 0
NoUid == 0
MgmtSession == 1
\* the documents the lifecycle specification follows from their creation:
\* every status write addresses one document and reads no other
CreatableTids == {1}

\* scheduled time of day <<hours, minutes>> typed into the tournament forms
FormTime == <<0, 5>>
FormDate == 0
\* seconds the clock advances in one step of the lifecycle specification
StatusTick == 600

VARIABLES now, tournaments, statusChangeLogs, engine, approval, mgmt,
          users, clients, withdrawalRequests, rechargeRequests, rewards,
          wdAdmin, rcAdmin, umAdmin, auth, profile

\* the collections and components of the request, reward and sign-in handlers
walletVars == <<withdrawalRequests, rechargeRequests, rewards,
                wdAdmin, rcAdmin, umAdmin, auth, profile>>
\* the state of the wallet side, untouched by the lifecycle handlers
ledgerVars == <<users, clients, walletVars>>
\* the state no handler of TournamentList touches
adminVars == <<statusChangeLogs, approval, mgmt, walletVars>>
vars == <<now, tournaments, statusChangeLogs, engine, approval, mgmt,
          users, clients, withdrawalRequests, rechargeRequests, rewards,
          wdAdmin, rcAdmin, umAdmin, auth, profile>>

(***************************************************************************)
(* Documents of the tournaments collection.                                *)
(***************************************************************************)
NoTournament ==
  [exists |-> FALSE, status |-> "none", tournamentDate |-> NoTime,
   tournamentTime |-> <<>>, statusUpdatedAt |-> NoTime,
   entryFee |-> 0, maxParticipants |-> 0, participants |-> <<>>]

\* the next document id addDoc hands out
FreeTid(ts) ==
  IF \E t \in Tids : ~ts[t].exists
    THEN CHOOSE t \in Tids : ~ts[t].exists /\ \A u \in Tids : u < t => ts[u].exists
    ELSE NoTid

\* tournamentDate.toDate() with setHours(hours, minutes, 0, 0)
StartInstant(t) ==
  t.tournamentDate + (t.tournamentTime[1] * 60 + t.tournamentTime[2]) * 60

\* the start compared with the current time without the buffer
UpcomingToLive_NoBuffer(ts, nowv) ==
  {t \in Tids : /\ ts[t].exists
                /\ ts[t].status = "upcoming"
                /\ ts[t].tournamentDate # NoTime
                /\ ts[t].tournamentTime # <<>>
                /\ nowv >= StartInstant(ts[t])}

UpcomingToLive(ts, nowv) ==
  {t \in Tids : /\ ts[t].exists
                /\ ts[t].status = "upcoming"
                /\ ts[t].tournamentDate # NoTime
                /\ ts[t].tournamentTime # <<>>
                /\ nowv - bufferInSeconds >= StartInstant(ts[t])}

LiveWithoutStamp(ts) ==
  {t \in Tids : ts[t].exists /\ ts[t].status = "live" /\ ts[t].statusUpdatedAt = NoTime}

\* the difference in seconds compared with the window in milliseconds
LiveToCompleted_Millis(ts, nowv) ==
  {t \in Tids : /\ ts[t].exists
                /\ ts[t].status = "live"
                /\ ts[t].statusUpdatedAt # NoTime
                /\ nowv - ts[t].statusUpdatedAt >= LiveMinutes * 60 * 1000}

\* a missing statusUpdatedAt taken as the current time minus 10 minutes
LiveToCompleted_Backdated(ts, nowv) ==
  {t \in Tids : /\ ts[t].exists
                /\ ts[t].status = "live"
                /\ \/ ts[t].statusUpdatedAt = NoTime
                   \/ nowv - ts[t].statusUpdatedAt >= LiveMinutes * 60}

LiveToCompleted(ts, nowv) ==
  {t \in Tids : /\ ts[t].exists
                /\ ts[t].status = "live"
                /\ ts[t].statusUpdatedAt # NoTime
                /\ nowv - ts[t].statusUpdatedAt >= LiveMinutes * 60}

\* tournamentDate.toDate() of the first filter throws a TypeError: the
\* single try block is left before the second filter and before any write
PassThrows(ts) ==
  \E t \in Tids : /\ ts[t].exists
                  /\ ts[t].status = "upcoming"
                  /\ ts[t].tournamentTime # <<>>
                  /\ ts[t].tournamentDate = MalformedDate

\* the writes one reconciliation pass issues for the collection it read
PassWrites(ts, nowv) ==
  IF PassThrows(ts) THEN {}
  ELSE {[tid |-> t, kind |-> "live"] : t \in UpcomingToLive(ts, nowv)}
    \cup {[tid |-> t, kind |-> "completed"] : t \in LiveToCompleted(ts, nowv)}
    \cup {[tid |-> t, kind |-> "log"] : t \in LiveToCompleted(ts, nowv)}
    \cup {[tid |-> t, kind |-> "stamp"] : t \in LiveWithoutStamp(ts)}

\* a session with no migration call running; results holds the
\* migratedCount each finished call of the session returned
MigrationIdle == [pc |-> "idle", writes |-> {}, migratedCount |-> 0, results |-> <<>>]

\* a session with no pass and no migration running
EngineIdle == [writes |-> {}, migration |-> MigrationIdle]

\* the writes Promise.all waits for; the back-fill stamp is fire-and-forget
AwaitedWrites(s) == {w \in engine[s].writes : w.kind # "stamp"}

SessionIdle(s) == AwaitedWrites(s) = {}

(***************************************************************************)
(* TournamentStatusService.checkAndUpdateTournamentStatuses                *)
(***************************************************************************)
\* getDocs and the two filters; the writes are issued and land later
PassRead(s) ==
  /\ SessionIdle(s)
  /\ engine' = [engine EXCEPT ![s].writes = @ \cup PassWrites(tournaments, now)]
  /\ UNCHANGED <<now, tournaments, statusChangeLogs, approval, mgmt>>
  /\ UNCHANGED ledgerVars

\* the live write without its statusUpdatedAt field
ApplyStatusWrite_NoStamp(t, w, nowv) ==
  IF w.kind = "live" THEN [t EXCEPT !.status = "live"]
  ELSE IF w.kind = "completed"
    THEN [t EXCEPT !.status = "completed", !.statusUpdatedAt = nowv]
  ELSE IF w.kind = "stamp" THEN [t EXCEPT !.statusUpdatedAt = nowv]
  ELSE t

\* the effect of one updateDoc of a pass on the stored document
ApplyStatusWrite(t, w, nowv) ==
  IF w.kind = "live" THEN [t EXCEPT !.status = "live", !.statusUpdatedAt = nowv]
  ELSE IF w.kind = "completed"
    THEN [t EXCEPT !.status = "completed", !.statusUpdatedAt = nowv]
  ELSE IF w.kind = "stamp" THEN [t EXCEPT !.statusUpdatedAt = nowv]
  ELSE t

\* one issued write reaches the store
PassWrite(s, w) ==
  /\ w \in engine[s].writes
  /\ engine' = [engine EXCEPT ![s].writes = @ \ {w}]
  /\ IF w.kind = "log"
       THEN /\ statusChangeLogs' =
                 [statusChangeLogs EXCEPT
                    ![w.tid] = IF @ < MaxLogs THEN @ + 1 ELSE MaxLogs]
            /\ UNCHANGED tournaments
       ELSE /\ tournaments' = [tournaments EXCEPT
                                 ![w.tid] = ApplyStatusWrite(@, w, now)]
            /\ UNCHANGED statusChangeLogs
  /\ UNCHANGED <<now, approval, mgmt>>
  /\ UNCHANGED ledgerVars

\* one issued write is rejected by the store: Promise.all rejects and the
\* catch block returns success false; the other issued writes stay in flight
PassWriteRejected(s, w) ==
  /\ w \in engine[s].writes
  /\ engine' = [engine EXCEPT ![s].writes = @ \ {w}]
  /\ UNCHANGED <<now, tournaments, statusChangeLogs, approval, mgmt>>
  /\ UNCHANGED ledgerVars

(***************************************************************************)
(* TournamentStatusService.migrateLiveTournaments                          *)
(***************************************************************************)
\* every live tournament, stamped or not
LiveTournamentsToMigrate_AnyLive(ts) ==
  {t \in Tids : ts[t].exists /\ ts[t].status = "live"}

\* tournament.status === 'live' && !tournament.statusUpdatedAt
LiveTournamentsToMigrate(ts) ==
  {t \in Tids : ts[t].exists /\ ts[t].status = "live" /\ ts[t].statusUpdatedAt = NoTime}

\* getDocs and the filter; one updateDoc is issued per tournament found
MigrateRead(s) ==
  /\ engine[s].migration.pc = "idle"
  /\ Len(engine[s].migration.results) < MaxMigrations
  /\ engine' = [engine EXCEPT
                  ![s].migration.pc = "writing",
                  ![s].migration.writes = LiveTournamentsToMigrate(tournaments),
                  ![s].migration.migratedCount =
                     Cardinality(LiveTournamentsToMigrate(tournaments))]
  /\ UNCHANGED <<now, tournaments, statusChangeLogs, approval, mgmt>>
  /\ UNCHANGED ledgerVars

\* updateDoc(tournamentRef, {statusUpdatedAt: serverTimestamp()})
MigrateWrite(s, t) ==
  /\ engine[s].migration.pc = "writing"
  /\ t \in engine[s].migration.writes
  /\ engine' = [engine EXCEPT ![s].migration.writes = @ \ {t}]
  /\ tournaments' = [tournaments EXCEPT
                       ![t] = ApplyStatusWrite(@, [tid |-> t, kind |-> "stamp"], now)]
  /\ UNCHANGED <<now, statusChangeLogs, approval, mgmt>>
  /\ UNCHANGED ledgerVars

\* Promise.all resolved: return {success: true, migratedCount}
MigrateReturn(s) ==
  /\ engine[s].migration.pc = "writing"
  /\ engine[s].migration.writes = {}
  /\ engine' = [engine EXCEPT
                  ![s].migration.pc = "idle",
                  ![s].migration.results = Append(@, engine[s].migration.migratedCount)]
  /\ UNCHANGED <<now, tournaments, statusChangeLogs, approval, mgmt>>
  /\ UNCHANGED ledgerVars

(***************************************************************************)
(* TournamentManagement: the edit form and handleSubmit                    *)
(*                                                                         *)
(* The row an admin clicks was read by an earlier fetchTournaments and the *)
(* modal stays open for as long as the admin likes, so the form is taken   *)
(* from the store when the modal opens: a staler list yields no write that *)
(* a longer-open modal does not yield.  The fields of a closed modal are   *)
(* overwritten by the next open and are kept at their defaults.            *)
(***************************************************************************)
MgmtClosed ==
  [showModal |-> FALSE, editMode |-> FALSE, currentTournamentId |-> NoTid,
   status |-> "upcoming", showParticipantsModal |-> FALSE,
   selectedTournament |-> NoTid, selectedParticipants |-> <<>>]

openCreateModal ==
  /\ ~mgmt.showModal
  /\ mgmt' = [MgmtClosed EXCEPT !.showModal = TRUE]
  /\ UNCHANGED <<now, tournaments, statusChangeLogs, engine, approval>>
  /\ UNCHANGED ledgerVars

openEditModal(t) ==
  /\ ~mgmt.showModal
  /\ tournaments[t].exists
  /\ mgmt' = [MgmtClosed EXCEPT !.showModal = TRUE, !.editMode = TRUE,
                                !.currentTournamentId = t,
                                !.status = tournaments[t].status]
  /\ UNCHANGED <<now, tournaments, statusChangeLogs, engine, approval>>
  /\ UNCHANGED ledgerVars

\* the status select of the form
handleInputChange(st) ==
  /\ mgmt.showModal
  /\ st \in {"upcoming", "live", "completed"}
  /\ mgmt.status # st
  /\ mgmt' = [mgmt EXCEPT !.status = st]
  /\ UNCHANGED <<now, tournaments, statusChangeLogs, engine, approval>>
  /\ UNCHANGED ledgerVars

\* baseTournamentData written by updateDoc: every form field, never participants
SubmitEdit(t, st) ==
  IF t.exists
    THEN [t EXCEPT !.status = st, !.tournamentDate = FormDate,
                   !.tournamentTime = FormTime]
    ELSE t

\* newTournamentData written by addDoc
SubmitCreate(st, fee, maxp) ==
  [exists |-> TRUE, status |-> st, tournamentDate |-> FormDate,
   tournamentTime |-> FormTime, statusUpdatedAt |-> NoTime,
   entryFee |-> fee, maxParticipants |-> maxp, participants |-> <<>>]

\* handleSubmit with its trailing fetchTournaments, which starts a pass
handleSubmit ==
  /\ mgmt.showModal
  /\ SessionIdle(MgmtSession)
  /\ mgmt.editMode \/ FreeTid(tournaments) \in CreatableTids
  /\ tournaments' =
       IF mgmt.editMode
         THEN [tournaments EXCEPT ![mgmt.currentTournamentId] =
                 SubmitEdit(@, mgmt.status)]
         ELSE [tournaments EXCEPT ![FreeTid(tournaments)] =
                 SubmitCreate(mgmt.status, DefaultEntryFee,
                              DefaultMaxParticipants)]
  /\ engine' = [engine EXCEPT
                  ![MgmtSession].writes = @ \cup PassWrites(tournaments', now)]
  /\ mgmt' = MgmtClosed
  /\ UNCHANGED <<now, statusChangeLogs, approval>>
  /\ UNCHANGED ledgerVars

\* the Participants button of a row: the row is kept as selectedTournament
openParticipantsModal(t) ==
  /\ ~mgmt.showModal /\ ~mgmt.showParticipantsModal
  /\ tournaments[t].exists
  /\ mgmt' = [mgmt EXCEPT !.showParticipantsModal = TRUE,
                          !.selectedTournament = t,
                          !.selectedParticipants = tournaments[t].participants]
  /\ UNCHANGED <<now, tournaments, statusChangeLogs, engine, approval>>
  /\ UNCHANGED ledgerVars

\* Close of the participants modal
closeParticipantsModal ==
  /\ mgmt.showParticipantsModal
  /\ mgmt' = [mgmt EXCEPT !.showParticipantsModal = FALSE]
  /\ UNCHANGED <<now, tournaments, statusChangeLogs, engine, approval>>
  /\ UNCHANGED ledgerVars

\* updatedParticipants.splice(participantIndex, 1), with indices from 1
Splice(participants, participantIndex) ==
  SubSeq(participants, 1, participantIndex - 1)
    \o SubSeq(participants, participantIndex + 1, Len(participants))

\* Remove of a row of the participants modal, confirmed; the trailing
\* fetchTournaments starts a pass
handleRemoveParticipant(participantIndex) ==
  /\ mgmt.showParticipantsModal
  /\ mgmt.selectedTournament # NoTid
  /\ participantIndex \in 1..Len(mgmt.selectedParticipants)
  /\ SessionIdle(MgmtSession)
  /\ LET updatedParticipants == Splice(mgmt.selectedParticipants, participantIndex)
     IN /\ tournaments' = [tournaments EXCEPT
                             ![mgmt.selectedTournament].participants =
                                updatedParticipants]
        /\ mgmt' = [mgmt EXCEPT !.selectedParticipants = updatedParticipants]
  /\ engine' = [engine EXCEPT
                  ![MgmtSession].writes = @ \cup PassWrites(tournaments', now)]
  /\ UNCHANGED <<now, statusChangeLogs, approval>>
  /\ UNCHANGED ledgerVars

(***************************************************************************)
(* CreateTournament.handleSubmit: a user submits a tournament              *)
(***************************************************************************)
UserCreate ==
  [SubmitCreate("pending", DefaultEntryFee, DefaultMaxParticipants)
     EXCEPT !.status = "pending"]

UserCreateTournament ==
  /\ FreeTid(tournaments) \in CreatableTids
  /\ tournaments' = [tournaments EXCEPT ![FreeTid(tournaments)] = UserCreate]
  /\ UNCHANGED <<now, statusChangeLogs, engine, approval, mgmt>>
  /\ UNCHANGED ledgerVars

(***************************************************************************)
(* TournamentApproval                                                      *)
(*                                                                         *)
(* fetchPendingTournaments lists the tournaments stored as pending; as for *)
(* the edit form, the row is taken from the store when the modal opens.    *)
(***************************************************************************)
ApprovalClosed ==
  [selectedTournament |-> NoTid, modalAction |-> "view", showModal |-> FALSE]

openTournamentModal(t, action) ==
  /\ ~approval.showModal
  /\ tournaments[t].exists /\ tournaments[t].status = "pending"
  /\ approval' = [selectedTournament |-> t, modalAction |-> action,
                  showModal |-> TRUE]
  /\ UNCHANGED <<now, tournaments, statusChangeLogs, engine, mgmt>>
  /\ UNCHANGED ledgerVars

\* the status an approve / reject updateDoc stores
ApprovalWrite(t, st) == IF t.exists THEN [t EXCEPT !.status = st] ELSE t

handleApproveTournament ==
  /\ approval.showModal /\ approval.modalAction = "approve"
  /\ approval.selectedTournament # NoTid
  /\ tournaments' = [tournaments EXCEPT ![approval.selectedTournament] =
                       ApprovalWrite(@, "upcoming")]
  /\ approval' = ApprovalClosed
  /\ UNCHANGED <<now, statusChangeLogs, engine, mgmt>>
  /\ UNCHANGED ledgerVars

handleRejectTournament ==
  /\ approval.showModal /\ approval.modalAction = "reject"
  /\ approval.selectedTournament # NoTid
  /\ tournaments' = [tournaments EXCEPT ![approval.selectedTournament] =
                       ApprovalWrite(@, "rejected")]
  /\ approval' = ApprovalClosed
  /\ UNCHANGED <<now, statusChangeLogs, engine, mgmt>>
  /\ UNCHANGED ledgerVars

(***************************************************************************)
(* Documents of the users collection (AuthContext.signup)                  *)
(***************************************************************************)
SignedUp ==
  [exists |-> TRUE, walletBalance |-> 0, joinedTournaments |-> {},
   loginAttempts |-> 0, accountLocked |-> FALSE]

(***************************************************************************)
(* Strings typed into the username field, as sequences of character codes. *)
(* The codes are letters and blanks: text without markup, which            *)
(* DOMPurify.sanitize returns unchanged.                                   *)
(***************************************************************************)
Blank == 32

RECURSIVE TrimStart(_)
TrimStart(str) ==
  IF str # <<>> /\ Head(str) = Blank THEN TrimStart(Tail(str)) ELSE str

RECURSIVE TrimEnd(_)
TrimEnd(str) ==
  IF str # <<>> /\ str[Len(str)] = Blank
    THEN TrimEnd(SubSeq(str, 1, Len(str) - 1))
    ELSE str

\* String.prototype.trim
Trim(str) == TrimEnd(TrimStart(str))

\* String.prototype.toLowerCase on A..Z
ToLowerCase(str) ==
  [i \in DOMAIN str |-> IF str[i] >= 65 /\ str[i] <= 90 THEN str[i] + 32 ELSE str[i]]

MinUsernameLength == 3
MaxUsernameLength == 20

\* "ABC" and " abc "
UsernameInputs ==
  {<<65, 66, 67>>, <<32, 97, 98, 99, 32>>}

(***************************************************************************)
(* TournamentList                                                          *)
(***************************************************************************)
NoJoin == [tid |-> NoTid, newBalance |-> 0, username |-> <<>>]

\* the component before its mount effect has run; currentTournament is the
\* id of the listed row openJoinModal stored (the list is only replaced
\* while the modal is closed, so the row is tournaments[currentTournament])
Unmounted ==
  [tournaments |-> [t \in Tids |-> NoTournament], loading |-> TRUE,
   currentTournament |-> NoTid, showJoinModal |-> FALSE,
   walletBalance |-> 0, isJoining |-> FALSE,
   pc |-> "idle", join |-> NoJoin, error |-> ""]

\* participants?.some(p => p.userId === currentUser.uid)
hasJoined(doc, uid) ==
  \E i \in DOMAIN doc.participants : doc.participants[i].userId = uid

\* participants.some(p => p.username.toLowerCase() === name.toLowerCase())
UsernameTaken(doc, name) ==
  \E i \in DOMAIN doc.participants :
    ToLowerCase(doc.participants[i].username) = ToLowerCase(name)

\* arrayUnion: append unless an equal element is stored already
arrayUnion(seq, e) ==
  IF \E i \in DOMAIN seq : seq[i] = e THEN seq ELSE Append(seq, e)

\* the page is (re)loaded: fresh component state, fetchUserWalletBalance
\* and fetchTournaments up to the await of the reconciliation pass
Mount(c) ==
  /\ clients[c].pc = "idle"
  /\ ~clients[c].loading
  /\ SessionIdle(c)
  /\ users[UserOf(c)].exists
  /\ engine' = [engine EXCEPT ![c].writes = @ \cup PassWrites(tournaments, now)]
  /\ clients' = [clients EXCEPT ![c] =
                   [Unmounted EXCEPT
                      !.walletBalance = users[UserOf(c)].walletBalance]]
  /\ UNCHANGED <<now, tournaments, users>>
  /\ UNCHANGED adminVars

\* fetchTournaments after the pass: getDocs, setTournaments, setLoading(false)
fetchTournamentsRead(c) ==
  /\ clients[c].loading
  /\ AwaitedWrites(c) = {}
  /\ clients' = [clients EXCEPT ![c].loading = FALSE,
                                ![c].tournaments = tournaments]
  /\ UNCHANGED <<now, tournaments, users, engine>>
  /\ UNCHANGED adminVars

\* the Join button of a listed tournament: shown unless hasJoined, disabled
\* unless the listed status is upcoming and the listed tournament is not full
openJoinModal(c, t) ==
  /\ ~clients[c].showJoinModal
  /\ ~clients[c].loading
  /\ LET doc == clients[c].tournaments[t]
     IN /\ doc.exists
        /\ ~hasJoined(doc, UserOf(c))
        /\ doc.status = "upcoming"
        /\ ~(Len(doc.participants) >= doc.maxParticipants)
        /\ clients' = [clients EXCEPT ![c].currentTournament = t,
                                      ![c].showJoinModal = TRUE,
                                      ![c].error = ""]
  /\ UNCHANGED <<now, tournaments, users, engine>>
  /\ UNCHANGED adminVars

\* Cancel / onHide of the modal
closeJoinModal(c) ==
  /\ clients[c].showJoinModal
  /\ clients' = [clients EXCEPT ![c].showJoinModal = FALSE, ![c].error = ""]
  /\ UNCHANGED <<now, tournaments, users, engine>>
  /\ UNCHANGED adminVars

\* the outcome of the checks of handleJoinTournament, in the order of the code
JoinCheck(doc, walletBalance, typed) ==
  LET name == Trim(typed)
  IN IF Trim(typed) = <<>> THEN "Username is required"
     ELSE IF Len(name) < MinUsernameLength \/ Len(name) > MaxUsernameLength
       THEN "Username must be between 3 and 20 characters"
     ELSE IF UsernameTaken(doc, name) THEN "This username is already taken"
     ELSE IF walletBalance < doc.entryFee THEN "Insufficient wallet balance"
     ELSE IF Len(doc.participants) >= doc.maxParticipants THEN "Tournament is full"
     ELSE "ok"

\* the handler without its isJoining guard
handleJoinTournament_NoGuard(c, typed) ==
  LET cl == clients[c]
      doc == cl.tournaments[cl.currentTournament]
      res == JoinCheck(doc, cl.walletBalance, typed)
  IN /\ cl.showJoinModal
     \* the button is disabled on these conditions, and the handler returns
     /\ cl.currentTournament # NoTid
     /\ ~(cl.walletBalance < doc.entryFee)
     /\ clients' =
          [clients EXCEPT ![c] =
             IF res = "ok"
               THEN [cl EXCEPT !.isJoining = TRUE, !.pc = "debit",
                               !.join = [tid |-> cl.currentTournament,
                                         newBalance |-> cl.walletBalance - doc.entryFee,
                                         username |-> Trim(typed)]]
             ELSE [cl EXCEPT !.error = res]]
     /\ UNCHANGED <<now, tournaments, users, engine>>
     /\ UNCHANGED adminVars

\* Confirm & Join: the synchronous part of handleJoinTournament
handleJoinTournament(c, typed) ==
  LET cl == clients[c]
      doc == cl.tournaments[cl.currentTournament]
      res == JoinCheck(doc, cl.walletBalance, typed)
  IN /\ cl.showJoinModal
     \* the button is disabled on these conditions, and the handler returns
     /\ cl.currentTournament # NoTid
     /\ ~(cl.walletBalance < doc.entryFee)
     /\ ~cl.isJoining
     /\ clients' =
          [clients EXCEPT ![c] =
             IF res = "ok"
               THEN [cl EXCEPT !.isJoining = TRUE, !.pc = "debit",
                               !.join = [tid |-> cl.currentTournament,
                                         newBalance |-> cl.walletBalance - doc.entryFee,
                                         username |-> Trim(typed)]]
             ELSE [cl EXCEPT !.error = res]]
     /\ UNCHANGED <<now, tournaments, users, engine>>
     /\ UNCHANGED adminVars

\* updateDoc(userRef, {walletBalance, joinedTournaments: arrayUnion(id)})
JoinDebitWrite(u, j) ==
  [u EXCEPT !.walletBalance = j.newBalance,
            !.joinedTournaments = @ \cup {j.tid}]

JoinDebit(c) ==
  /\ clients[c].pc = "debit"
  /\ users[UserOf(c)].exists
  /\ users' = [users EXCEPT ![UserOf(c)] = JoinDebitWrite(@, clients[c].join)]
  /\ clients' = [clients EXCEPT ![c].pc = "append"]
  /\ UNCHANGED <<now, tournaments, engine>>
  /\ UNCHANGED adminVars

\* updateDoc(tournamentRef, {participants: arrayUnion({...})})
JoinAppendWrite(t, uid, j, nowv) ==
  [t EXCEPT !.participants =
     arrayUnion(@, [userId |-> uid, username |-> j.username, joinedAt |-> nowv])]

\* the participant write, then setWalletBalance, fetchTournaments,
\* setShowJoinModal(false) and the finally block
JoinAppend(c) ==
  /\ clients[c].pc = "append"
  /\ tournaments[clients[c].join.tid].exists
  /\ tournaments' = [tournaments EXCEPT ![clients[c].join.tid] =
                       JoinAppendWrite(@, UserOf(c), clients[c].join, now)]
  /\ engine' = [engine EXCEPT ![c].writes = @ \cup PassWrites(tournaments', now)]
  /\ clients' = [clients EXCEPT ![c].pc = "idle",
                                ![c].join = NoJoin,
                                ![c].walletBalance = clients[c].join.newBalance,
                                ![c].loading = TRUE,
                                ![c].showJoinModal = FALSE,
                                ![c].isJoining = FALSE]
  /\ UNCHANGED <<now, users>>
  /\ UNCHANGED adminVars

\* the updateDoc of the user is rejected: the catch block sets the error
\* and the finally block clears isJoining; nothing was written
JoinDebitRejected(c) ==
  /\ clients[c].pc = "debit"
  /\ clients' = [clients EXCEPT ![c].pc = "idle",
                                ![c].join = NoJoin,
                                ![c].error = "Failed to join tournament",
                                ![c].isJoining = FALSE]
  /\ UNCHANGED <<now, tournaments, users, engine>>
  /\ UNCHANGED adminVars

\* a catch block that writes the entry fee back to the user
JoinAppendRejected_Refund(c) ==
  /\ clients[c].pc = "append"
  /\ users' = [users EXCEPT
                 ![UserOf(c)].walletBalance = clients[c].walletBalance,
                 ![UserOf(c)].joinedTournaments = @ \ {clients[c].join.tid}]
  /\ clients' = [clients EXCEPT ![c].pc = "idle",
                                ![c].join = NoJoin,
                                ![c].error = "Failed to join tournament",
                                ![c].isJoining = FALSE]
  /\ UNCHANGED <<now, tournaments, engine>>
  /\ UNCHANGED adminVars

\* the updateDoc of the tournament is rejected after the user was debited:
\* the catch block sets the error, the finally block clears isJoining, and
\* setWalletBalance, fetchTournaments and setShowJoinModal(false) are skipped
JoinAppendRejected(c) ==
  /\ clients[c].pc = "append"
  /\ clients' = [clients EXCEPT ![c].pc = "idle",
                                ![c].join = NoJoin,
                                ![c].error = "Failed to join tournament",
                                ![c].isJoining = FALSE]
  /\ UNCHANGED <<now, tournaments, users, engine>>
  /\ UNCHANGED adminVars

(***************************************************************************)
(* Documents of withdrawalRequests and rechargeRequests                    *)
(* (UserProfile.handleWithdrawRequest, RechargeModal)                      *)
(***************************************************************************)
NoRequest ==
  [exists |-> FALSE, userId |-> NoUid, amount |-> 0, status |-> "none",
   processedDate |-> NoTime]

\* a request created with status approved
PendingRequest_Approved(uid, amt) ==
  [exists |-> TRUE, userId |-> uid, amount |-> amt, status |-> "approved",
   processedDate |-> NoTime]

PendingRequest(uid, amt) ==
  [exists |-> TRUE, userId |-> uid, amount |-> amt, status |-> "pending",
   processedDate |-> NoTime]

\* the component state of a request page with its modal closed
RequestAdminIdle ==
  [currentRequest |-> NoRid, snapshot |-> NoRequest, showModal |-> FALSE,
   pc |-> "idle", currentBalance |-> 0]

\* updateDoc(requestRef, {status, processedDate, notes, ...})
ProcessRequest(r, st, nowv) ==
  IF r.exists THEN [r EXCEPT !.status = st, !.processedDate = nowv] ELSE r

(***************************************************************************)
(* WithdrawalManagement                                                    *)
(***************************************************************************)
\* a row of the fetched list is opened; the row is read when the modal opens
WdOpenRequestModal(a, r) ==
  /\ ~wdAdmin[a].showModal /\ wdAdmin[a].pc = "idle"
  /\ withdrawalRequests[r].exists
  /\ wdAdmin' = [wdAdmin EXCEPT ![a] =
                [RequestAdminIdle EXCEPT !.currentRequest = r,
                                         !.snapshot = withdrawalRequests[r],
                                         !.showModal = TRUE]]
  /\ UNCHANGED <<now, tournaments, statusChangeLogs, engine, approval, mgmt,
                 profile,
                 users, clients, withdrawalRequests, rechargeRequests, rewards,
                 rcAdmin, umAdmin, auth>>

\* Approve: the request write of handleApproveRequest
WdApproveRequest(a) ==
  /\ wdAdmin[a].showModal /\ wdAdmin[a].pc = "idle"
  /\ wdAdmin[a].snapshot.status = "pending"
  /\ withdrawalRequests' = [withdrawalRequests EXCEPT ![wdAdmin[a].currentRequest] =
                              ProcessRequest(@, "approved", now)]
  /\ wdAdmin' = [wdAdmin EXCEPT ![a].pc = "getUser"]
  /\ UNCHANGED <<now, tournaments, statusChangeLogs, engine, approval, mgmt,
                 profile,
                 users, clients, rechargeRequests, rewards, rcAdmin, umAdmin, auth>>

\* getDoc(userRef): userData.walletBalance || 0
WdApproveGetUser(a) ==
  /\ wdAdmin[a].pc = "getUser"
  /\ IF users[wdAdmin[a].snapshot.userId].exists
       THEN wdAdmin' = [wdAdmin EXCEPT
                          ![a].pc = "writeUser",
                          ![a].currentBalance =
                             users[wdAdmin[a].snapshot.userId].walletBalance]
       ELSE wdAdmin' = [wdAdmin EXCEPT ![a] = RequestAdminIdle]
  /\ UNCHANGED <<now, tournaments, statusChangeLogs, engine, approval, mgmt,
                 profile,
                 users, clients, withdrawalRequests, rechargeRequests, rewards,
                 rcAdmin, umAdmin, auth>>

Max(a, b) == IF a >= b THEN a ELSE b

\* the debit without its floor at zero
WithdrawalNewBalance_NoFloor(currentBalance, amount) == currentBalance - amount

\* the debit floored with Math.min in place of Math.max
WithdrawalNewBalance_MinFloor(currentBalance, amount) ==
  IF currentBalance - amount <= 0 THEN currentBalance - amount ELSE 0

\* the debit applied to the balance stored at the time of the write
WithdrawalNewBalance_Stored(currentBalance, amount) ==
  Max(0, users[1].walletBalance - amount)

\* Math.max(0, currentBalance - currentRequest.amount)
WithdrawalNewBalance(currentBalance, amount) == Max(0, currentBalance - amount)

\* updateDoc(userRef, {walletBalance: newBalance}), then the modal closes
WdApproveWriteUser(a) ==
  /\ wdAdmin[a].pc = "writeUser"
  /\ users' = [users EXCEPT ![wdAdmin[a].snapshot.userId].walletBalance =
                 WithdrawalNewBalance(wdAdmin[a].currentBalance,
                                      wdAdmin[a].snapshot.amount)]
  /\ wdAdmin' = [wdAdmin EXCEPT ![a] = RequestAdminIdle]
  /\ UNCHANGED <<now, tournaments, statusChangeLogs, engine, approval, mgmt,
                 profile,
                 clients, withdrawalRequests, rechargeRequests, rewards,
                 rcAdmin, umAdmin, auth>>

WdRejectRequest(a) ==
  /\ wdAdmin[a].showModal /\ wdAdmin[a].pc = "idle"
  /\ wdAdmin[a].snapshot.status = "pending"
  /\ withdrawalRequests' = [withdrawalRequests EXCEPT ![wdAdmin[a].currentRequest] =
                              ProcessRequest(@, "rejected", now)]
  /\ wdAdmin' = [wdAdmin EXCEPT ![a] = RequestAdminIdle]
  /\ UNCHANGED <<now, tournaments, statusChangeLogs, engine, approval, mgmt,
                 profile,
                 users, clients, rechargeRequests, rewards, rcAdmin, umAdmin, auth>>

\* Close
WdCloseModal(a) ==
  /\ wdAdmin[a].showModal /\ wdAdmin[a].pc = "idle"
  /\ wdAdmin' = [wdAdmin EXCEPT ![a] = RequestAdminIdle]
  /\ UNCHANGED <<now, tournaments, statusChangeLogs, engine, approval, mgmt,
                 profile,
                 users, clients, withdrawalRequests, rechargeRequests, rewards,
                 rcAdmin, umAdmin, auth>>

(***************************************************************************)
(* RechargeManagement                                                      *)
(***************************************************************************)
RcOpenRequestModal(a, r) ==
  /\ ~rcAdmin[a].showModal /\ rcAdmin[a].pc = "idle"
  /\ rechargeRequests[r].exists
  /\ rcAdmin' = [rcAdmin EXCEPT ![a] =
                [RequestAdminIdle EXCEPT !.currentRequest = r,
                                         !.snapshot = rechargeRequests[r],
                                         !.showModal = TRUE]]
  /\ UNCHANGED <<now, tournaments, statusChangeLogs, engine, approval, mgmt,
                 profile,
                 users, clients, withdrawalRequests, rechargeRequests, rewards,
                 wdAdmin, umAdmin, auth>>

RcApproveRequest(a) ==
  /\ rcAdmin[a].showModal /\ rcAdmin[a].pc = "idle"
  /\ rcAdmin[a].snapshot.status = "pending"
  /\ rechargeRequests' = [rechargeRequests EXCEPT ![rcAdmin[a].currentRequest] =
                            ProcessRequest(@, "approved", now)]
  /\ rcAdmin' = [rcAdmin EXCEPT ![a].pc = "getUser"]
  /\ UNCHANGED <<now, tournaments, statusChangeLogs, engine, approval, mgmt,
                 profile,
                 users, clients, withdrawalRequests, rewards, wdAdmin, umAdmin, auth>>

RcApproveGetUser(a) ==
  /\ rcAdmin[a].pc = "getUser"
  /\ IF users[rcAdmin[a].snapshot.userId].exists
       THEN rcAdmin' = [rcAdmin EXCEPT
                          ![a].pc = "writeUser",
                          ![a].currentBalance =
                             users[rcAdmin[a].snapshot.userId].walletBalance]
       ELSE rcAdmin' = [rcAdmin EXCEPT ![a] = RequestAdminIdle]
  /\ UNCHANGED <<now, tournaments, statusChangeLogs, engine, approval, mgmt,
                 profile,
                 users, clients, withdrawalRequests, rechargeRequests, rewards,
                 wdAdmin, umAdmin, auth>>

\* currentBalance + Number(currentRequest.amount)
RechargeNewBalance(currentBalance, amount) == currentBalance + amount

RcApproveWriteUser(a) ==
  /\ rcAdmin[a].pc = "writeUser"
  /\ users' = [users EXCEPT ![rcAdmin[a].snapshot.userId].walletBalance =
                 RechargeNewBalance(rcAdmin[a].currentBalance,
                                    rcAdmin[a].snapshot.amount)]
  /\ rcAdmin' = [rcAdmin EXCEPT ![a] = RequestAdminIdle]
  /\ UNCHANGED <<now, tournaments, statusChangeLogs, engine, approval, mgmt,
                 profile,
                 clients, withdrawalRequests, rechargeRequests, rewards,
                 wdAdmin, umAdmin, auth>>

\* the updateDoc of the user is rejected: the catch block sets the error,
\* the modal stays open and the request stays approved
RcApproveWriteUserRejected(a) ==
  /\ rcAdmin[a].pc = "writeUser"
  /\ rcAdmin' = [rcAdmin EXCEPT ![a].pc = "idle"]
  /\ UNCHANGED <<now, tournaments, statusChangeLogs, engine, approval, mgmt,
                 profile,
                 users, clients, withdrawalRequests, rechargeRequests, rewards,
                 wdAdmin, umAdmin, auth>>

RcRejectRequest(a) ==
  /\ rcAdmin[a].showModal /\ rcAdmin[a].pc = "idle"
  /\ rcAdmin[a].snapshot.status = "pending"
  /\ rechargeRequests' = [rechargeRequests EXCEPT ![rcAdmin[a].currentRequest] =
                            ProcessRequest(@, "rejected", now)]
  /\ rcAdmin' = [rcAdmin EXCEPT ![a] = RequestAdminIdle]
  /\ UNCHANGED <<now, tournaments, statusChangeLogs, engine, approval, mgmt,
                 profile,
                 users, clients, withdrawalRequests, rewards, wdAdmin, umAdmin, auth>>

\* Close
RcCloseModal(a) ==
  /\ rcAdmin[a].showModal /\ rcAdmin[a].pc = "idle"
  /\ rcAdmin' = [rcAdmin EXCEPT ![a] = RequestAdminIdle]
  /\ UNCHANGED <<now, tournaments, statusChangeLogs, engine, approval, mgmt,
                 profile,
                 users, clients, withdrawalRequests, rechargeRequests, rewards,
                 wdAdmin, umAdmin, auth>>

(***************************************************************************)
(* UserManagement: the reward grant                                        *)
(***************************************************************************)
UserAdminIdle ==
  [currentUserId |-> NoUid, showModal |-> FALSE, pc |-> "idle",
   walletAmount |-> 0, previousBalance |-> 0, newBalance |-> 0]

openWalletModal(u) ==
  /\ ~umAdmin.showModal /\ umAdmin.pc = "idle"
  /\ users[u].exists
  /\ umAdmin' = [UserAdminIdle EXCEPT !.currentUserId = u, !.showModal = TRUE]
  /\ UNCHANGED <<now, tournaments, statusChangeLogs, engine, approval, mgmt,
                 profile,
                 users, clients, withdrawalRequests, rechargeRequests, rewards,
                 wdAdmin, rcAdmin, auth>>

\* (userData.walletBalance || 0) + Number(walletAmount)
RewardNewBalance(balance, walletAmount) == balance + walletAmount

\* Add Funds with the amount typed: the guard and the getDoc of handleAddFunds
handleAddFunds(amt) ==
  /\ umAdmin.showModal /\ umAdmin.pc = "idle"
  /\ Len(rewards) < MaxRewards
  /\ IF umAdmin.currentUserId = NoUid \/ amt <= 0
          \/ ~users[umAdmin.currentUserId].exists
       THEN UNCHANGED umAdmin
       ELSE umAdmin' =
              [umAdmin EXCEPT
                 !.pc = "update", !.walletAmount = amt,
                 !.previousBalance = users[umAdmin.currentUserId].walletBalance,
                 !.newBalance =
                    RewardNewBalance(users[umAdmin.currentUserId].walletBalance, amt)]
  /\ UNCHANGED <<now, tournaments, statusChangeLogs, engine, approval, mgmt,
                 profile,
                 users, clients, withdrawalRequests, rechargeRequests, rewards,
                 wdAdmin, rcAdmin, auth>>

\* updateDoc(userRef, {walletBalance: newBalance})
AddFundsUpdate ==
  /\ umAdmin.pc = "update"
  /\ users' = [users EXCEPT ![umAdmin.currentUserId].walletBalance =
                 umAdmin.newBalance]
  /\ umAdmin' = [umAdmin EXCEPT !.pc = "addDoc"]
  /\ UNCHANGED <<now, tournaments, statusChangeLogs, engine, approval, mgmt,
                 profile,
                 clients, withdrawalRequests, rechargeRequests, rewards,
                 wdAdmin, rcAdmin, auth>>

\* the document added to the rewards collection
RewardRecord(um) ==
  [userId |-> um.currentUserId, amount |-> um.walletAmount,
   previousBalance |-> um.previousBalance, newBalance |-> um.newBalance]

\* addDoc(collection(db, 'rewards'), ...), then the modal closes
AddFundsRecord ==
  /\ umAdmin.pc = "addDoc"
  /\ rewards' = Append(rewards, RewardRecord(umAdmin))
  /\ umAdmin' = UserAdminIdle
  /\ UNCHANGED <<now, tournaments, statusChangeLogs, engine, approval, mgmt,
                 profile,
                 users, clients, withdrawalRequests, rechargeRequests,
                 wdAdmin, rcAdmin, auth>>

(***************************************************************************)
(* AuthContext: login and loginWithGoogle                                  *)
(***************************************************************************)
AuthIdle == [pc |-> "idle", userId |-> NoUid, userData |-> SignedUp]

LockAfterAttempts == 5

\* the query by email and the accountLocked check
LoginQuery(u) ==
  /\ auth.pc = "idle"
  /\ users[u].exists
  /\ IF users[u].accountLocked
       THEN UNCHANGED auth
       ELSE auth' = [pc |-> "signIn", userId |-> u, userData |-> users[u]]
  /\ UNCHANGED <<now, tournaments, statusChangeLogs, engine, approval, mgmt,
                 profile,
                 users, clients, withdrawalRequests, rechargeRequests, rewards,
                 wdAdmin, rcAdmin, umAdmin>>

\* setDoc(..., {...userData, loginAttempts: 0, lastLogin}, {merge: true}):
\* every field of the document read before the sign-in is written back
LoginSuccessWrite(userData) == [userData EXCEPT !.loginAttempts = 0]

\* setDoc(..., {...userData, loginAttempts, accountLocked}, {merge: true})
LoginFailureWrite(userData) ==
  [userData EXCEPT !.loginAttempts = userData.loginAttempts + 1,
                   !.accountLocked = (userData.loginAttempts + 1 >= LockAfterAttempts)]

\* signInWithEmailAndPassword resolves or rejects, then the write
LoginResult(ok) ==
  /\ auth.pc = "signIn"
  /\ ok \/ auth.userData.loginAttempts < MaxFailedLogins
  /\ users' = [users EXCEPT ![auth.userId] =
                 IF ok THEN LoginSuccessWrite(auth.userData)
                       ELSE LoginFailureWrite(auth.userData)]
  /\ auth' = AuthIdle
  /\ UNCHANGED <<now, tournaments, statusChangeLogs, engine, approval, mgmt,
                 profile,
                 clients, withdrawalRequests, rechargeRequests, rewards,
                 wdAdmin, rcAdmin, umAdmin>>

\* signInWithPopup and getDoc(userRef)
GoogleRead(u) ==
  /\ auth.pc = "idle"
  /\ auth' = [pc |-> "google", userId |-> u, userData |-> users[u]]
  /\ UNCHANGED <<now, tournaments, statusChangeLogs, engine, approval, mgmt,
                 profile,
                 users, clients, withdrawalRequests, rechargeRequests, rewards,
                 wdAdmin, rcAdmin, umAdmin>>

\* setDoc(userRef, {lastLogin, loginAttempts: 0, accountLocked: false,
\* displayName, photoURL}, {merge: true}) for a user read as existing;
\* setDoc(userRef, {... walletBalance: 0 ...}) for one read as missing
GoogleWriteDoc(stored, userSnap) ==
  IF userSnap.exists
    THEN [stored EXCEPT !.loginAttempts = 0, !.accountLocked = FALSE]
    ELSE SignedUp

GoogleWrite ==
  /\ auth.pc = "google"
  /\ users' = [users EXCEPT ![auth.userId] = GoogleWriteDoc(@, auth.userData)]
  /\ auth' = AuthIdle
  /\ UNCHANGED <<now, tournaments, statusChangeLogs, engine, approval, mgmt,
                 profile,
                 clients, withdrawalRequests, rechargeRequests, rewards,
                 wdAdmin, rcAdmin, umAdmin>>

(***************************************************************************)
(* The clock                                                               *)
(***************************************************************************)
Tick(d) ==
  /\ now + d <= MaxNow
  /\ now' = now + d
  /\ UNCHANGED <<tournaments, statusChangeLogs, engine, approval, mgmt>>
  /\ UNCHANGED ledgerVars

(***************************************************************************)
(* UserProfile and RechargeModal: the requests a user submits              *)
(***************************************************************************)
\* userData before fetchUserData has set it
NoUserData == -1
\* the signed-in user of the profile page
ProfileUser == 1
\* withdrawAmount < 300
MinWithdrawal == 300

\* the component state of UserProfile when it mounts
ProfileIdle == [userData |-> NoUserData, error |-> "", success |-> FALSE]

\* the lowest request id not in use, the document addDoc creates
FreeRid(rs) ==
  IF \E r \in Rids : ~rs[r].exists
    THEN CHOOSE r \in Rids : ~rs[r].exists /\ \A q \in Rids : q < r => rs[q].exists
    ELSE NoRid

\* the mount effect: getUserData(currentUser.uid), setUserData
fetchUserData ==
  /\ users[ProfileUser].exists
  /\ profile' = [ProfileIdle EXCEPT !.userData = users[ProfileUser].walletBalance]
  /\ UNCHANGED <<now, tournaments, statusChangeLogs, engine, approval, mgmt,
                 users, clients, withdrawalRequests, rechargeRequests, rewards,
                 wdAdmin, rcAdmin, umAdmin, auth>>

\* the checks of handleWithdrawRequest, in the order of the code; the
\* balance is userData.walletBalance, the one loaded when the page mounted
WithdrawCheck(withdrawAmount, walletBalance, accountName, accountNumber, bankName) ==
  IF withdrawAmount <= 0 THEN "Please enter a valid withdrawal amount"
  ELSE IF withdrawAmount < MinWithdrawal THEN "Minimum withdrawal amount is 300 Rs."
  ELSE IF withdrawAmount > walletBalance
    THEN "Withdrawal amount cannot exceed your balance"
  ELSE IF accountName = <<>> \/ accountNumber = <<>> \/ bankName = <<>>
    THEN "Please fill in all required fields"
  ELSE "ok"

\* Submit Request of the withdraw modal
handleWithdrawRequest(withdrawAmount, accountName, accountNumber, bankName) ==
  LET res == WithdrawCheck(withdrawAmount, profile.userData,
                           accountName, accountNumber, bankName)
  IN /\ profile.userData # NoUserData
     /\ IF res = "ok"
          THEN /\ FreeRid(withdrawalRequests) # NoRid
               /\ withdrawalRequests' =
                    [withdrawalRequests EXCEPT
                       ![FreeRid(withdrawalRequests)] =
                          PendingRequest(ProfileUser, withdrawAmount)]
               /\ profile' = [profile EXCEPT !.error = "", !.success = TRUE]
          ELSE /\ profile' = [profile EXCEPT !.error = res]
               /\ UNCHANGED withdrawalRequests
     /\ UNCHANGED <<now, tournaments, statusChangeLogs, engine, approval, mgmt,
                    users, clients, rechargeRequests, rewards,
                    wdAdmin, rcAdmin, umAdmin, auth>>

\* the checks of RechargeModal.handleSubmit, in the order of the code
RechargeCheck(amount, paymentMethod, transactionId, imageUrl) ==
  IF amount <= 0 THEN "Please enter a valid amount"
  ELSE IF paymentMethod = <<>> THEN "Please select a payment method"
  ELSE IF transactionId = <<>> THEN "Please enter a transaction ID"
  ELSE IF imageUrl = <<>> THEN "Please upload a payment proof image"
  ELSE "ok"

\* Submit of the recharge modal; onSuccess reloads userData of the page
RechargeSubmit(amount, paymentMethod, transactionId, imageUrl) ==
  LET res == RechargeCheck(amount, paymentMethod, transactionId, imageUrl)
  IN /\ profile.userData # NoUserData
     /\ IF res = "ok"
          THEN /\ FreeRid(rechargeRequests) # NoRid
               /\ rechargeRequests' =
                    [rechargeRequests EXCEPT
                       ![FreeRid(rechargeRequests)] =
                          PendingRequest(ProfileUser, amount)]
               /\ profile' = [profile EXCEPT
                                !.userData = users[ProfileUser].walletBalance]
          ELSE /\ profile' = [profile EXCEPT !.error = res]
               /\ UNCHANGED rechargeRequests
     /\ UNCHANGED <<now, tournaments, statusChangeLogs, engine, approval, mgmt,
                    users, clients, withdrawalRequests, rewards,
                    wdAdmin, rcAdmin, umAdmin, auth>>

(***************************************************************************)
(* The lifecycle specification                                             *)
(***************************************************************************)
InitStatus ==
  /\ now = 0
  /\ tournaments = [t \in Tids |-> NoTournament]
  /\ statusChangeLogs = [t \in Tids |-> 0]
  /\ engine = [s \in AllSessions |-> EngineIdle]
  /\ approval = ApprovalClosed
  /\ mgmt = MgmtClosed
  /\ users = [u \in Uids |-> SignedUp]
  /\ clients = [c \in Clients |-> Unmounted]
  /\ withdrawalRequests = [r \in Rids |-> NoRequest]
  /\ rechargeRequests = [r \in Rids |-> NoRequest]
  /\ rewards = <<>>
  /\ wdAdmin = [a \in Admins |-> RequestAdminIdle]
  /\ rcAdmin = [a \in Admins |-> RequestAdminIdle]
  /\ umAdmin = UserAdminIdle
  /\ auth = AuthIdle
  /\ profile = ProfileIdle

NextStatus ==
  \/ \E s \in Sessions : PassRead(s)
  \/ \E s \in Sessions : \E w \in engine[s].writes : PassWrite(s, w)
  \/ openCreateModal
  \/ \E t \in Tids : openEditModal(t)
  \/ \E st \in {"upcoming", "live", "completed"} : handleInputChange(st)
  \/ handleSubmit
  \/ UserCreateTournament
  \/ \E t \in Tids : \E a \in {"approve", "reject"} : openTournamentModal(t, a)
  \/ handleApproveTournament
  \/ handleRejectTournament
  \/ Tick(StatusTick)

SpecStatus == InitStatus /\ [][NextStatus]_vars

(***************************************************************************)
(* The engine specification: only reconciliation passes and the clock,     *)
(* started from documents as the creation forms store them.                *)
(***************************************************************************)
EngineInitDocs ==
  {SubmitCreate("upcoming", DefaultEntryFee, DefaultMaxParticipants),
   SubmitCreate("live", DefaultEntryFee, DefaultMaxParticipants),
   UserCreate}

InitEngine ==
  /\ now = 0
  /\ tournaments \in [Tids -> EngineInitDocs]
  /\ statusChangeLogs = [t \in Tids |-> 0]
  /\ engine = [s \in AllSessions |-> EngineIdle]
  /\ approval = ApprovalClosed
  /\ mgmt = MgmtClosed
  /\ users = [u \in Uids |-> SignedUp]
  /\ clients = [c \in Clients |-> Unmounted]
  /\ withdrawalRequests = [r \in Rids |-> NoRequest]
  /\ rechargeRequests = [r \in Rids |-> NoRequest]
  /\ rewards = <<>>
  /\ wdAdmin = [a \in Admins |-> RequestAdminIdle]
  /\ rcAdmin = [a \in Admins |-> RequestAdminIdle]
  /\ umAdmin = UserAdminIdle
  /\ auth = AuthIdle
  /\ profile = ProfileIdle

NextEngine ==
  \/ \E s \in Sessions : PassRead(s)
  \/ \E s \in Sessions : \E w \in engine[s].writes : PassWrite(s, w)
  \/ Tick(StatusTick)

SpecEngine == InitEngine /\ [][NextEngine]_vars

(***************************************************************************)
(* The join specification: clients of TournamentList that have loaded the  *)
(* list and their balance, and tournaments an admin created as upcoming.   *)
(***************************************************************************)
JoinEntryFee == 200
JoinInitBalance == 300

\* tournament t is created with t slots
JoinTournamentDoc(t) == SubmitCreate("upcoming", JoinEntryFee, t)

InitJoin ==
  /\ now = 0
  /\ tournaments = [t \in Tids |-> JoinTournamentDoc(t)]
  /\ statusChangeLogs = [t \in Tids |-> 0]
  /\ engine = [s \in AllSessions |-> EngineIdle]
  /\ approval = ApprovalClosed
  /\ mgmt = MgmtClosed
  /\ users = [u \in Uids |-> [SignedUp EXCEPT !.walletBalance = JoinInitBalance]]
  /\ clients = [c \in Clients |->
                  [Unmounted EXCEPT !.tournaments = tournaments,
                                    !.loading = FALSE,
                                    !.walletBalance = JoinInitBalance]]
  /\ withdrawalRequests = [r \in Rids |-> NoRequest]
  /\ rechargeRequests = [r \in Rids |-> NoRequest]
  /\ rewards = <<>>
  /\ wdAdmin = [a \in Admins |-> RequestAdminIdle]
  /\ rcAdmin = [a \in Admins |-> RequestAdminIdle]
  /\ umAdmin = UserAdminIdle
  /\ auth = AuthIdle
  /\ profile = ProfileIdle

NextJoin ==
  \/ \E c \in Clients : Mount(c)
  \/ \E c \in Clients : fetchTournamentsRead(c)
  \/ \E c \in Clients : \E t \in Tids : openJoinModal(c, t)
  \/ \E c \in Clients : closeJoinModal(c)
  \/ \E c \in Clients : \E typed \in UsernameInputs : handleJoinTournament(c, typed)
  \/ \E c \in Clients : JoinDebit(c)
  \/ \E c \in Clients : JoinAppend(c)

SpecJoin == InitJoin /\ [][NextJoin]_vars

(***************************************************************************)
(* The wallet specification: every handler that writes the document of     *)
(* user 1 - the join of the user's client, the approval of the user's      *)
(* pending withdrawal and recharge requests, the reward grant and the two  *)
(* sign-in paths.                                                          *)
(***************************************************************************)
WalletUser == 1
WalletClient == 1
WalletAdmin == 1
WalletTid == 1
WalletInitBalance == 1000
WalletEntryFee == 800
WithdrawalAmount == 300
RechargeAmount == 500
WalletAmounts == {0, 100}

InitWallet ==
  /\ now = 0
  /\ tournaments = [t \in Tids |->
                      IF t = WalletTid
                        THEN SubmitCreate("upcoming", WalletEntryFee,
                                          DefaultMaxParticipants)
                        ELSE NoTournament]
  /\ statusChangeLogs = [t \in Tids |-> 0]
  /\ engine = [s \in AllSessions |-> EngineIdle]
  /\ approval = ApprovalClosed
  /\ mgmt = MgmtClosed
  /\ users = [u \in Uids |->
                IF u = WalletUser
                  THEN [SignedUp EXCEPT !.walletBalance = WalletInitBalance]
                  ELSE SignedUp]
  /\ clients = [c \in Clients |->
                  IF c = WalletClient
                    THEN [Unmounted EXCEPT !.tournaments = tournaments,
                                           !.loading = FALSE,
                                           !.walletBalance = WalletInitBalance]
                    ELSE Unmounted]
  /\ withdrawalRequests = [r \in Rids |-> PendingRequest(WalletUser, WithdrawalAmount)]
  /\ rechargeRequests = [r \in Rids |-> PendingRequest(WalletUser, RechargeAmount)]
  /\ rewards = <<>>
  /\ wdAdmin = [a \in Admins |-> RequestAdminIdle]
  /\ rcAdmin = [a \in Admins |-> RequestAdminIdle]
  /\ umAdmin = UserAdminIdle
  /\ auth = AuthIdle
  /\ profile = ProfileIdle

NextWallet ==
  \/ Mount(WalletClient)
  \/ fetchTournamentsRead(WalletClient)
  \/ openJoinModal(WalletClient, WalletTid)
  \/ closeJoinModal(WalletClient)
  \/ \E typed \in UsernameInputs : handleJoinTournament(WalletClient, typed)
  \/ JoinDebit(WalletClient)
  \/ JoinAppend(WalletClient)
  \/ \E r \in Rids : WdOpenRequestModal(WalletAdmin, r)
  \/ WdApproveRequest(WalletAdmin)
  \/ WdApproveGetUser(WalletAdmin)
  \/ WdApproveWriteUser(WalletAdmin)
  \/ \E r \in Rids : RcOpenRequestModal(WalletAdmin, r)
  \/ RcApproveRequest(WalletAdmin)
  \/ RcApproveGetUser(WalletAdmin)
  \/ RcApproveWriteUser(WalletAdmin)
  \/ openWalletModal(WalletUser)
  \/ \E amt \in WalletAmounts : handleAddFunds(amt)
  \/ AddFundsUpdate
  \/ AddFundsRecord

SpecWallet == InitWallet /\ [][NextWallet]_vars

(***************************************************************************)
(* The sign-in specification: login and loginWithGoogle of user 1 next to  *)
(* the recharge approval and the reward grant for the same user.           *)
(***************************************************************************)
NextAuth ==
  \/ LoginQuery(WalletUser)
  \/ \E ok \in BOOLEAN : LoginResult(ok)
  \/ GoogleRead(WalletUser)
  \/ GoogleWrite
  \/ \E r \in Rids : RcOpenRequestModal(WalletAdmin, r)
  \/ RcApproveRequest(WalletAdmin)
  \/ RcApproveGetUser(WalletAdmin)
  \/ RcApproveWriteUser(WalletAdmin)
  \/ openWalletModal(WalletUser)
  \/ \E amt \in WalletAmounts : handleAddFunds(amt)
  \/ AddFundsUpdate
  \/ AddFundsRecord

SpecAuth == InitWallet /\ [][NextAuth]_vars

(***************************************************************************)
(* The migration specification: sessions call the back-fill migration      *)
(* while reconciliation passes run and the clock advances.                 *)
(***************************************************************************)
\* the session whose polling runs the passes
PassSession == 1

\* a legacy tournament stored as live without statusUpdatedAt and one
\* created as upcoming
MigrateInitDocs(t) ==
  IF t = 1 THEN SubmitCreate("live", DefaultEntryFee, DefaultMaxParticipants)
  ELSE IF t = 2 THEN SubmitCreate("upcoming", DefaultEntryFee, DefaultMaxParticipants)
  ELSE NoTournament

InitMigrate ==
  /\ now = 0
  /\ tournaments = [t \in Tids |-> MigrateInitDocs(t)]
  /\ statusChangeLogs = [t \in Tids |-> 0]
  /\ engine = [s \in AllSessions |-> EngineIdle]
  /\ approval = ApprovalClosed
  /\ mgmt = MgmtClosed
  /\ users = [u \in Uids |-> SignedUp]
  /\ clients = [c \in Clients |-> Unmounted]
  /\ withdrawalRequests = [r \in Rids |-> NoRequest]
  /\ rechargeRequests = [r \in Rids |-> NoRequest]
  /\ rewards = <<>>
  /\ wdAdmin = [a \in Admins |-> RequestAdminIdle]
  /\ rcAdmin = [a \in Admins |-> RequestAdminIdle]
  /\ umAdmin = UserAdminIdle
  /\ auth = AuthIdle
  /\ profile = ProfileIdle

NextMigrate ==
  \/ \E s \in Sessions : MigrateRead(s)
  \/ \E s \in Sessions : \E t \in Tids : MigrateWrite(s, t)
  \/ \E s \in Sessions : MigrateReturn(s)
  \/ PassRead(PassSession)
  \/ \E w \in engine[PassSession].writes : PassWrite(PassSession, w)
  \/ Tick(StatusTick)

SpecMigrate == InitMigrate /\ [][NextMigrate]_vars

(***************************************************************************)
(* The late-join specification: a client of TournamentList that loaded its *)
(* list joins while the clock advances and the status polling moves the    *)
(* tournament through its lifecycle.                                       *)
(***************************************************************************)
NextLateJoin ==
  \/ Mount(WalletClient)
  \/ fetchTournamentsRead(WalletClient)
  \/ openJoinModal(WalletClient, WalletTid)
  \/ closeJoinModal(WalletClient)
  \/ \E typed \in UsernameInputs : handleJoinTournament(WalletClient, typed)
  \/ JoinDebit(WalletClient)
  \/ JoinAppend(WalletClient)
  \/ PassRead(PassSession)
  \/ \E s \in AllSessions : \E w \in engine[s].writes : PassWrite(s, w)
  \/ Tick(StatusTick)

SpecLateJoin == InitWallet /\ [][NextLateJoin]_vars

(***************************************************************************)
(* The timing specification: reconciliation passes under a clock read at   *)
(* the instants around the scheduled start (0:05 = 300 s) plus the buffer  *)
(* and around the end of the live window of a tournament made live there.  *)
(***************************************************************************)
ClockInstants == {329, 330, 331, 929, 930, 931}

\* the clock is next read at a later instant
TickTo(n) ==
  /\ n > now
  /\ n <= MaxNow
  /\ now' = n
  /\ UNCHANGED <<tournaments, statusChangeLogs, engine, approval, mgmt>>
  /\ UNCHANGED ledgerVars

NextClock ==
  \/ \E s \in Sessions : PassRead(s)
  \/ \E s \in Sessions : \E w \in engine[s].writes : PassWrite(s, w)
  \/ \E n \in ClockInstants : TickTo(n)

SpecClock == InitMigrate /\ [][NextClock]_vars

(***************************************************************************)
(* The polling specification: the sessions stay open and poll.  The timer  *)
(* of App runs a pass every minute, which is more often than the clock of  *)
(* this specification steps: the clock advances once a pass at the current *)
(* instant has nothing left to issue and the issued writes have landed.    *)
(* Every pending write lands and session 1 keeps running passes.           *)
(***************************************************************************)
PolledTick(d) ==
  /\ PassWrites(tournaments, now) = {}
  /\ \A s \in Sessions : engine[s].writes = {}
  /\ Tick(d)

NextPolling ==
  \/ \E s \in Sessions : PassRead(s)
  \/ \E s \in Sessions : \E w \in engine[s].writes : PassWrite(s, w)
  \/ PolledTick(StatusTick)

SpecPolling ==
  /\ InitMigrate
  /\ [][NextPolling]_vars
  /\ WF_vars(PassRead(PassSession))
  /\ \A s \in Sessions : WF_vars(\E w \in engine[s].writes : PassWrite(s, w))
  /\ WF_vars(PolledTick(StatusTick))

(***************************************************************************)
(* The request specification: several admin clients work on the pending    *)
(* withdrawal and recharge requests of one user.                           *)
(***************************************************************************)
NextRequests ==
  \/ \E a \in Admins : \E r \in Rids : WdOpenRequestModal(a, r)
  \/ \E a \in Admins : WdApproveRequest(a)
  \/ \E a \in Admins : WdApproveGetUser(a)
  \/ \E a \in Admins : WdApproveWriteUser(a)
  \/ \E a \in Admins : WdRejectRequest(a)
  \/ \E a \in Admins : WdCloseModal(a)
  \/ \E a \in Admins : \E r \in Rids : RcOpenRequestModal(a, r)
  \/ \E a \in Admins : RcApproveRequest(a)
  \/ \E a \in Admins : RcApproveGetUser(a)
  \/ \E a \in Admins : RcApproveWriteUser(a)
  \/ \E a \in Admins : RcRejectRequest(a)
  \/ \E a \in Admins : RcCloseModal(a)

SpecRequests == InitWallet /\ [][NextRequests]_vars

(***************************************************************************)
(* Passes over a collection that may hold a record whose tournamentDate is *)
(* no Timestamp, with writes the store may reject.                         *)
(***************************************************************************)
InitFault ==
  /\ now = 0
  /\ \E malformed \in BOOLEAN :
       tournaments =
         [t \in Tids |->
            IF malformed /\ t = 1
              THEN [SubmitCreate("upcoming", DefaultEntryFee,
                                 DefaultMaxParticipants)
                      EXCEPT !.tournamentDate = MalformedDate]
              ELSE MigrateInitDocs(t)]
  /\ statusChangeLogs = [t \in Tids |-> 0]
  /\ engine = [s \in AllSessions |-> EngineIdle]
  /\ approval = ApprovalClosed
  /\ mgmt = MgmtClosed
  /\ users = [u \in Uids |-> SignedUp]
  /\ clients = [c \in Clients |-> Unmounted]
  /\ withdrawalRequests = [r \in Rids |-> NoRequest]
  /\ rechargeRequests = [r \in Rids |-> NoRequest]
  /\ rewards = <<>>
  /\ wdAdmin = [a \in Admins |-> RequestAdminIdle]
  /\ rcAdmin = [a \in Admins |-> RequestAdminIdle]
  /\ umAdmin = UserAdminIdle
  /\ auth = AuthIdle
  /\ profile = ProfileIdle

NextFault ==
  \/ PassRead(PassSession)
  \/ \E w \in engine[PassSession].writes : PassWrite(PassSession, w)
  \/ \E w \in engine[PassSession].writes : PassWriteRejected(PassSession, w)
  \/ \E n \in ClockInstants : TickTo(n)

SpecFault == InitFault /\ [][NextFault]_vars

(***************************************************************************)
(* A user submits withdrawal and recharge requests from the profile page   *)
(* while a second tab of the same user joins a tournament and an admin     *)
(* rejects requests.                                                       *)
(***************************************************************************)
WithdrawInputs == {0, 299, 300, 1001}
AccountInputs == {<<>>, <<65>>}

InitProfile ==
  /\ now = 0
  /\ tournaments = [t \in Tids |->
                      IF t = WalletTid
                        THEN SubmitCreate("upcoming", WalletEntryFee,
                                          DefaultMaxParticipants)
                        ELSE NoTournament]
  /\ statusChangeLogs = [t \in Tids |-> 0]
  /\ engine = [s \in AllSessions |-> EngineIdle]
  /\ approval = ApprovalClosed
  /\ mgmt = MgmtClosed
  /\ users = [u \in Uids |->
                IF u = WalletUser
                  THEN [SignedUp EXCEPT !.walletBalance = WalletInitBalance]
                  ELSE SignedUp]
  /\ clients = [c \in Clients |->
                  IF c = WalletClient
                    THEN [Unmounted EXCEPT !.tournaments = tournaments,
                                           !.loading = FALSE,
                                           !.walletBalance = WalletInitBalance]
                    ELSE Unmounted]
  /\ withdrawalRequests = [r \in Rids |-> NoRequest]
  /\ rechargeRequests = [r \in Rids |-> NoRequest]
  /\ rewards = <<>>
  /\ wdAdmin = [a \in Admins |-> RequestAdminIdle]
  /\ rcAdmin = [a \in Admins |-> RequestAdminIdle]
  /\ umAdmin = UserAdminIdle
  /\ auth = AuthIdle
  /\ profile = ProfileIdle

NextProfile ==
  \/ fetchUserData
  \/ \E amt \in WithdrawInputs : \E an, ac, bn \in AccountInputs :
       handleWithdrawRequest(amt, an, ac, bn)
  \/ \E amt \in {0, RechargeAmount} : \E pm, tx, img \in AccountInputs :
       RechargeSubmit(amt, pm, tx, img)
  \/ openJoinModal(WalletClient, WalletTid)
  \/ \E typed \in UsernameInputs : handleJoinTournament(WalletClient, typed)
  \/ JoinDebit(WalletClient)
  \/ JoinAppend(WalletClient)
  \/ \E r \in Rids : WdOpenRequestModal(WalletAdmin, r)
  \/ WdRejectRequest(WalletAdmin)
  \/ \E r \in Rids : RcOpenRequestModal(WalletAdmin, r)
  \/ RcRejectRequest(WalletAdmin)

SpecProfile == InitProfile /\ [][NextProfile]_vars

(***************************************************************************)
(* Recharge requests settled by the admin clients, with a store that may   *)
(* reject the write of the user document.                                  *)
(***************************************************************************)
NextRecharge ==
  \/ \E a \in Admins : \E r \in Rids : RcOpenRequestModal(a, r)
  \/ \E a \in Admins : RcApproveRequest(a)
  \/ \E a \in Admins : RcApproveGetUser(a)
  \/ \E a \in Admins : RcApproveWriteUser(a)
  \/ \E a \in Admins : RcApproveWriteUserRejected(a)
  \/ \E a \in Admins : RcRejectRequest(a)
  \/ \E a \in Admins : RcCloseModal(a)

SpecRecharge == InitWallet /\ [][NextRecharge]_vars

(***************************************************************************)
(* One client joins a tournament against a store that may reject either    *)
(* write of the join.                                                      *)
(***************************************************************************)
NextJoinFault ==
  \/ openJoinModal(WalletClient, WalletTid)
  \/ closeJoinModal(WalletClient)
  \* "ABC", " abc ", a blank and a name that is too short
  \/ \E typed \in UsernameInputs \cup {<<32>>, <<65>>} :
       handleJoinTournament(WalletClient, typed)
  \/ JoinDebit(WalletClient)
  \/ JoinDebitRejected(WalletClient)
  \/ JoinAppend(WalletClient)
  \/ JoinAppendRejected(WalletClient)
  \/ fetchTournamentsRead(WalletClient)
  \/ \E w \in engine[WalletClient].writes : PassWrite(WalletClient, w)
  \/ Tick(StatusTick)

SpecJoinFault == InitWallet /\ [][NextJoinFault]_vars

(***************************************************************************)
(* Two users join a tournament while an admin has its participants modal   *)
(* and its edit form in use.                                               *)
(***************************************************************************)
\* the tournament with two slots
RemoveTid == 2

NextRemove ==
  \/ \E c \in Uids : openJoinModal(c, RemoveTid)
  \/ \E c \in Uids : \E typed \in UsernameInputs :
       handleJoinTournament(c, typed)
  \/ \E c \in Uids : JoinDebit(c)
  \/ \E c \in Uids : JoinAppend(c)
  \/ openParticipantsModal(RemoveTid)
  \/ closeParticipantsModal
  \/ \E i \in 1..NumUsers : handleRemoveParticipant(i)
  \/ openEditModal(RemoveTid)
  \/ handleSubmit

SpecRemove == InitJoin /\ [][NextRemove]_vars

(***************************************************************************)
(* Properties of the lifecycle                                             *)
(***************************************************************************)
StatusRank(st) ==
  CASE st = "pending" -> 0
    [] st = "upcoming" -> 1
    [] st = "live" -> 2
    [] st = "completed" -> 3
    [] st = "rejected" -> 3
    [] OTHER -> 0

AllowedStatusMoves ==
  {<<"pending", "upcoming">>, <<"upcoming", "live">>, <<"live", "completed">>,
   <<"pending", "rejected">>}

\* C1: the stored status of a tournament changes only along pending->upcoming,
\* upcoming->live, live->completed or pending->rejected, whichever handler
\* writes it (engine pass, admin approve/reject, admin create/edit).
C1_StatusMovesOnlyForward ==
  [][\A t \in Tids :
       tournaments[t].exists =>
         \/ tournaments'[t].status = tournaments[t].status
         \/ <<tournaments[t].status, tournaments'[t].status>>
               \in AllowedStatusMoves]_vars

\* C2: when the passes of several clients interleave, no write of a pass
\* lowers a tournament's stored status (completed is never overwritten by live).
C2_PassWriteNeverLowersStatus ==
  [][\A t \in Tids :
       StatusRank(tournaments'[t].status) >= StatusRank(tournaments[t].status)]_vars

(***************************************************************************)
(* Properties of the wallet and of the join                                *)
(***************************************************************************)
\* C3: after any interleaving of join, withdrawal approval, recharge approval
\* and reward grant, every user's stored wallet balance is >= 0.
C3_BalanceNeverNegative ==
  \A u \in Uids : users[u].walletBalance >= 0

\* the user joined (1000 - 800 = 200 stored) and the approval of the
\* withdrawal of 300 then floored the balance at zero
C3_Witness ==
  /\ WalletTid \in users[WalletUser].joinedTournaments
  /\ \E r \in Rids : withdrawalRequests[r].status = "approved"
  /\ \A a \in Admins : wdAdmin[a].pc = "idle"
  /\ clients[WalletClient].pc = "idle"
  /\ users[WalletUser].walletBalance = 0

IsFull(t) ==
  tournaments[t].exists /\ Len(tournaments[t].participants) >= tournaments[t].maxParticipants

\* C4: once a tournament holds maxParticipants participants, no later join
\* attempt of any client, stale or not, appends a participant or writes a
\* wallet balance.
C4_FullTournamentTakesNoJoin ==
  [][\A t \in Tids :
       IsFull(t) =>
         /\ tournaments'[t].participants = tournaments[t].participants
         /\ \A c \in Clients :
              (clients[c].pc = "debit" /\ clients[c].join.tid = t
                 /\ clients'[c].pc = "append")
                => users'[UserOf(c)].walletBalance = users[UserOf(c)].walletBalance]_vars

\* C5: every tournament has participants.length <= maxParticipants.
C5_ParticipantsWithinCapacity ==
  \A t \in Tids :
    tournaments[t].exists =>
      Len(tournaments[t].participants) <= tournaments[t].maxParticipants

\* C6: each user identity appears at most once in a tournament's participants.
C6_UserJoinsAtMostOnce ==
  \A t \in Tids :
    \A i, j \in DOMAIN tournaments[t].participants :
      i # j => tournaments[t].participants[i].userId
                 # tournaments[t].participants[j].userId

\* C7: within one tournament no two participants have usernames that are
\* equal ignoring case.
C7_UsernamesUniqueIgnoringCase ==
  \A t \in Tids :
    \A i, j \in DOMAIN tournaments[t].participants :
      i # j => ToLowerCase(tournaments[t].participants[i].username)
                 # ToLowerCase(tournaments[t].participants[j].username)

\* C8: the write of login and of loginWithGoogle leaves the stored
\* walletBalance equal to the value stored immediately before that write.
C8_SignInKeepsWalletBalance ==
  [][(auth.pc \in {"signIn", "google"} /\ auth'.pc = "idle")
       => users'[auth.userId].walletBalance = users[auth.userId].walletBalance]_vars

\* C9: no state is reachable in which the balance was credited by a reward
\* grant and no RewardRecord with newBalance = previousBalance + amount
\* exists for it.
C9_RewardCreditHasRecord ==
  umAdmin.pc = "addDoc" =>
    \E i \in DOMAIN rewards :
      /\ rewards[i].userId = umAdmin.currentUserId
      /\ rewards[i].amount = umAdmin.walletAmount
      /\ rewards[i].newBalance = rewards[i].previousBalance + rewards[i].amount

\* C10: approving a pending withdrawal request of amount a reads the user's
\* stored balance b and stores max(0, b - a); the request is stored as
\* approved with its processedDate set.
C10_WithdrawalApprovalDebit ==
  [][\A adm \in Admins :
       /\ (wdAdmin[adm].pc = "getUser" /\ wdAdmin'[adm].pc = "writeUser")
            => wdAdmin'[adm].currentBalance =
                 users[wdAdmin[adm].snapshot.userId].walletBalance
       /\ (wdAdmin[adm].pc = "writeUser" /\ wdAdmin'[adm].pc = "idle")
            => LET a == withdrawalRequests[wdAdmin[adm].currentRequest].amount
                   b == wdAdmin[adm].currentBalance
               IN /\ users'[wdAdmin[adm].snapshot.userId].walletBalance =
                       (IF b - a > 0 THEN b - a ELSE 0)
                  /\ withdrawalRequests'[wdAdmin[adm].currentRequest].status = "approved"
                  /\ withdrawalRequests'[wdAdmin[adm].currentRequest].processedDate
                       # NoTime]_vars

\* the request of 300 was approved for the user with balance 1000: 700
C10_Witness ==
  /\ \E r \in Rids : /\ withdrawalRequests[r].status = "approved"
                     /\ withdrawalRequests[r].amount = 300
                     /\ withdrawalRequests[r].processedDate # NoTime
  /\ \A a \in Admins : wdAdmin[a].pc = "idle"
  /\ users[WalletUser].walletBalance = 700

(***************************************************************************)
(* Properties of the timing of the passes                                  *)
(***************************************************************************)
\* C11: a pass completes a live tournament stamped at T exactly when the
\* pass's current time is more than 10 minutes after T; a pass at exactly
\* T + 10 min does not complete it.
C11_CompletedOnlyAfterTenMinutes ==
  \A t \in Tids :
    (tournaments[t].status = "live" /\ tournaments[t].statusUpdatedAt # NoTime)
      => ([tid |-> t, kind |-> "completed"] \in PassWrites(tournaments, now)
            <=> now - tournaments[t].statusUpdatedAt > 10 * 60)

(***************************************************************************)
(* Properties of the requests                                              *)
(***************************************************************************)
\* C12: the stored status of a withdrawal or recharge request changes only
\* from pending to approved or from pending to rejected, whichever admin
\* client writes it and whenever that client loaded the request.
C12_RequestStatusSettlesOnce ==
  [][LET RequestStatusMoves ==
           {<<"pending", "approved">>, <<"pending", "rejected">>}
     IN \A r \in Rids :
       /\ \/ withdrawalRequests'[r].status = withdrawalRequests[r].status
          \/ <<withdrawalRequests[r].status, withdrawalRequests'[r].status>>
                \in RequestStatusMoves
       /\ \/ rechargeRequests'[r].status = rechargeRequests[r].status
          \/ <<rechargeRequests[r].status, rechargeRequests'[r].status>>
                \in RequestStatusMoves]_vars

\* C13: whatever the interleaving of the admin clients' approvals, each
\* request moves the balance at most once: the balance never leaves the
\* range of the initial balance less every withdrawal amount once and plus
\* every recharge amount once.
C13_WalletEffectAtMostOnce ==
  /\ users[WalletUser].walletBalance
       >= WalletInitBalance - NumRequests * WithdrawalAmount
  /\ users[WalletUser].walletBalance
       <= WalletInitBalance + NumRequests * RechargeAmount

(***************************************************************************)
(* Properties of the migration                                             *)
(***************************************************************************)
\* C14: a call of migrateLiveTournaments that follows a finished call of the
\* same session issues no write, returns migratedCount = 0 and leaves every
\* tournament as the first call left it.
C14_SecondMigrationIsNoOp ==
  [][\A s \in Sessions :
       (/\ Len(engine[s].migration.results) >= 1
        /\ engine'[s].migration # engine[s].migration)
         => /\ engine'[s].migration.writes = {}
            /\ engine'[s].migration.migratedCount = 0
            /\ tournaments' = tournaments]_vars

\* a session's first call stamped a tournament and its second call returned 0
C14_Witness ==
  \E s \in Sessions :
    /\ Len(engine[s].migration.results) >= 2
    /\ engine[s].migration.results[1] > 0
    /\ engine[s].migration.results[2] = 0
    /\ \E t \in Tids : tournaments[t].status = "live"
                         /\ tournaments[t].statusUpdatedAt # NoTime

(***************************************************************************)
(* Properties of the join against the lifecycle and the ledger             *)
(***************************************************************************)
\* C15: a participant is appended only to a tournament whose stored status
\* is upcoming at the time of the write, also when the status changed after
\* the client loaded its list.
C15_JoinOnlyWhileUpcoming ==
  [][\A t \in Tids :
       Len(tournaments'[t].participants) > Len(tournaments[t].participants)
         => tournaments[t].status = "upcoming"]_vars

\* C16: a successful join stores the balance stored immediately before the
\* join less the entry fee, adds the tournament to joinedTournaments and
\* appends one participant record for the user, also when a recharge
\* approval, reward grant or withdrawal approval completed after the client
\* loaded its balance.
C16_JoinDebitsStoredBalance ==
  [][\A c \in Clients :
       LET u == UserOf(c)
           t == clients[c].join.tid
       IN /\ (clients[c].pc = "debit" /\ clients'[c].pc = "append")
               => /\ users'[u].walletBalance =
                       users[u].walletBalance - tournaments[t].entryFee
                  /\ t \in users'[u].joinedTournaments
          /\ (clients[c].pc = "append" /\ clients'[c].pc = "idle")
               => /\ Len(tournaments'[t].participants) =
                       Len(tournaments[t].participants) + 1
                  /\ tournaments'[t].participants[
                       Len(tournaments'[t].participants)].userId = u]_vars

\* C17: when a reward grant and a withdrawal approval for the same user both
\* read the balance b before either writes, the later write alone decides
\* the stored balance: the withdrawal written last stores max(0, b - a) and
\* the credit is lost, the reward written last stores b + r and the debit is
\* lost.
C17_LaterWriteWins ==
  [][\A adm \in Admins :
       LET u == umAdmin.currentUserId
           b == umAdmin.previousBalance
           r == umAdmin.walletAmount
           a == wdAdmin[adm].snapshot.amount
       IN /\ (/\ wdAdmin[adm].pc = "writeUser" /\ wdAdmin'[adm].pc = "idle"
              /\ umAdmin.pc = "addDoc"
              /\ wdAdmin[adm].snapshot.userId = u
              /\ wdAdmin[adm].currentBalance = b
              /\ users[u].walletBalance = b + r)
               => users'[u].walletBalance = (IF b - a > 0 THEN b - a ELSE 0)
          /\ (/\ umAdmin.pc = "update" /\ umAdmin'.pc = "addDoc"
              /\ wdAdmin[adm].pc = "idle"
              /\ \E q \in Rids :
                   /\ withdrawalRequests[q].status = "approved"
                   /\ withdrawalRequests[q].userId = u
                   /\ users[u].walletBalance =
                        (IF b - withdrawalRequests[q].amount > 0
                           THEN b - withdrawalRequests[q].amount ELSE 0))
               => users'[u].walletBalance = b + r]_vars

\* the reward of 100 and the withdrawal of 300 both read 1000; the reward
\* stored 1100, the withdrawal then stored 700 and the credit is lost
C17_Witness ==
  /\ \A adm \in Admins : wdAdmin[adm].pc = "idle"
  /\ \E q \in Rids : withdrawalRequests[q].status = "approved"
  /\ \A q \in Rids : rechargeRequests[q].status = "pending"
  /\ \A adm \in Admins : rcAdmin[adm].pc = "idle"
  /\ clients[WalletClient].pc = "idle"
  /\ WalletTid \notin users[WalletUser].joinedTournaments
  /\ umAdmin.pc = "addDoc"
  /\ umAdmin.previousBalance = WalletInitBalance
  /\ umAdmin.walletAmount = 100
  /\ users[WalletUser].walletBalance = WalletInitBalance - WithdrawalAmount

\* C18: a pass issues the live write for an upcoming tournament exactly when
\* its current time less 30 seconds is at or after the scheduled date and
\* time; a tournament becomes live only at or after 30 seconds past its
\* start, and the write that makes it live stamps statusUpdatedAt.
C18_LiveOnlyAfterBuffer ==
  /\ [](\A t \in Tids :
          (/\ tournaments[t].status = "upcoming"
           /\ tournaments[t].tournamentDate # NoTime
           /\ tournaments[t].tournamentTime # <<>>)
            => ([tid |-> t, kind |-> "live"] \in PassWrites(tournaments, now)
                  <=> now - 30 >= tournaments[t].tournamentDate
                                    + tournaments[t].tournamentTime[1] * 3600
                                    + tournaments[t].tournamentTime[2] * 60))
  /\ [][\A t \in Tids :
          (tournaments[t].status = "upcoming" /\ tournaments'[t].status = "live")
            => /\ now >= tournaments[t].tournamentDate
                           + tournaments[t].tournamentTime[1] * 3600
                           + tournaments[t].tournamentTime[2] * 60 + 30
               /\ tournaments'[t].statusUpdatedAt = now]_vars

\* the pass of one session made the tournament scheduled for 0:05 live at
\* 330 s, exactly 30 seconds after its start, and the pass of another
\* session that ran at the same instant has its live write still in flight
C18_Witness ==
  \E t \in Tids : \E s \in Sessions :
    /\ now = 330
    /\ tournaments[t].status = "live"
    /\ tournaments[t].statusUpdatedAt = 330
    /\ [tid |-> t, kind |-> "live"] \in engine[s].writes

C21_PassIsIdempotent ==
  LET first == PassWrites(tournaments, now)
      written(t) == {w \in first : w.tid = t /\ w.kind # "log"}
      after == [t \in Tids |->
                  IF written(t) = {} THEN tournaments[t]
                  ELSE ApplyStatusWrite(tournaments[t],
                                        CHOOSE w \in written(t) : TRUE, now)]
  IN /\ \A w \in first :
          tournaments[w.tid].status \notin {"completed", "rejected", "pending"}
     /\ \A t \in Tids : Cardinality(written(t)) <= 1
     /\ PassWrites(after, now) = {}

\* the writes of a pass that completed a tournament have all landed and no
\* time has elapsed: the state the second pass runs in
C21_Witness ==
  /\ \A s \in Sessions : engine[s].writes = {}
  /\ \E t \in Tids : /\ tournaments[t].status = "completed"
                      /\ tournaments[t].statusUpdatedAt = now
                      /\ statusChangeLogs[t] >= 1

\* C22: the audit log holds exactly one entry per live -> completed move of
\* a tournament, also when several clients reconcile concurrently.  A
\* tournament created as live is never made live by a pass, so it moves to
\* completed at most once: once every issued write has landed, its log
\* holds one entry if it is stored as completed and none otherwise.
C22_OneLogPerCompletion ==
  \A t \in Tids :
    (/\ MigrateInitDocs(t).status = "live"
     /\ \A s \in Sessions : engine[s].writes = {})
      => statusChangeLogs[t] = (IF tournaments[t].status = "completed" THEN 1 ELSE 0)

\* C23: a record of one tournament that makes the pass throw does not keep
\* the pass from issuing the status write due for every other tournament:
\* whatever the collection holds, a pass run now issues the live write of
\* every well-formed upcoming tournament whose start plus buffer has passed
\* and the completed write of every tournament live for ten minutes.
C23_FailureIsolation ==
  LET issued == PassWrites(tournaments, now)
      wellFormed(t) == tournaments[t].tournamentDate # MalformedDate
  IN /\ \A t \in UpcomingToLive(tournaments, now) :
          wellFormed(t) => [tid |-> t, kind |-> "live"] \in issued
     /\ \A t \in LiveToCompleted(tournaments, now) :
          [tid |-> t, kind |-> "completed"] \in issued

\* C24: a write of a pass or of the migration changes only status and
\* statusUpdatedAt of a tournament stored as upcoming or live: the step
\* leaves every pending or rejected tournament, every participants list
\* and every user record as they were.
C24_PassTouchesOnlyUpcomingOrLive ==
  [][(\E s \in AllSessions :
        \/ \E w \in engine[s].writes : PassWrite(s, w)
        \/ \E t \in Tids : MigrateWrite(s, t))
       => /\ \A t \in Tids :
               tournaments[t].status \in {"pending", "rejected"}
                 => tournaments'[t] = tournaments[t]
          /\ \A t \in Tids :
               tournaments'[t].participants = tournaments[t].participants
          /\ users' = users]_vars

(***************************************************************************)
(* Requests                                                                *)
(***************************************************************************)
\* C25: a step of RequestWithdrawal, RequestRecharge, RejectWithdrawal or
\* RejectRecharge leaves the stored balance of every user unchanged, and a
\* request that comes into existence has status pending.
C25_RequestsLeaveBalance ==
  [][LET requestStep ==
           \/ \E amt \in WithdrawInputs : \E an, ac, bn \in AccountInputs :
                handleWithdrawRequest(amt, an, ac, bn)
           \/ \E amt \in {0, RechargeAmount} : \E pm, tx, img \in AccountInputs :
                RechargeSubmit(amt, pm, tx, img)
           \/ \E a \in Admins : WdRejectRequest(a)
           \/ \E a \in Admins : RcRejectRequest(a)
     IN /\ requestStep
             => \A u \in Uids : users'[u].walletBalance = users[u].walletBalance
        /\ \A r \in Rids :
             /\ (~withdrawalRequests[r].exists /\ withdrawalRequests'[r].exists)
                  => withdrawalRequests'[r].status = "pending"
             /\ (~rechargeRequests[r].exists /\ rechargeRequests'[r].exists)
                  => rechargeRequests'[r].status = "pending"]_vars

C25_Witness ==
  /\ \E r \in Rids : withdrawalRequests[r].status = "rejected"
  /\ \E r \in Rids : rechargeRequests[r].status = "pending"
  /\ users[WalletUser].walletBalance = WalletInitBalance

\* C26: RequestWithdrawal creates no document and reports an error when
\* the amount is below 300, exceeds the user's stored wallet balance, or
\* one of account name, account number and bank name is empty; otherwise
\* it creates exactly one pending request with that amount.
C26_WithdrawalRequestChecks ==
  [][\A amt \in WithdrawInputs : \A an, ac, bn \in AccountInputs :
       handleWithdrawRequest(amt, an, ac, bn) =>
         IF \/ amt < 300
            \/ amt > users[ProfileUser].walletBalance
            \/ an = <<>> \/ ac = <<>> \/ bn = <<>>
           THEN /\ withdrawalRequests' = withdrawalRequests
                /\ profile'.error # ""
           ELSE \E r \in Rids :
                  /\ ~withdrawalRequests[r].exists
                  /\ withdrawalRequests' =
                       [withdrawalRequests EXCEPT
                          ![r] = [exists |-> TRUE, userId |-> ProfileUser,
                                  amount |-> amt, status |-> "pending",
                                  processedDate |-> NoTime]]]_vars

\* C27: approving a pending recharge request of amount a for a user with
\* stored balance b stores b + a and the request as approved: once no
\* approval is in progress, a recharge request stored as approved has been
\* credited to the balance of its user.
C27_RechargeApprovalCredits ==
  \A r \in Rids :
    (/\ rechargeRequests[r].status = "approved"
     /\ \A a \in Admins : rcAdmin[a].pc = "idle")
      => users[rechargeRequests[r].userId].walletBalance
           >= WalletInitBalance + rechargeRequests[r].amount

(***************************************************************************)
(* Joins against a store that rejects writes                               *)
(***************************************************************************)
\* C28: when the participant write of a join is rejected after the debit
\* was stored, nothing is written in compensation: the user keeps the
\* debited balance and the tournament in joinedTournaments, and the
\* tournament holds no participant record of the user.
C28_FailedJoinStaysDebited ==
  [][\A c \in Clients :
       JoinAppendRejected(c) =>
         LET u == UserOf(c)
             j == clients[c].join
         IN /\ users' = users
            /\ tournaments' = tournaments
            /\ users'[u].walletBalance = j.newBalance
            /\ j.tid \in users'[u].joinedTournaments
            /\ ~hasJoined(tournaments'[j.tid], u)]_vars

C28_Witness ==
  /\ clients[WalletClient].pc = "idle"
  /\ clients[WalletClient].error = "Failed to join tournament"
  /\ users[WalletUser].walletBalance = WalletInitBalance - WalletEntryFee
  /\ WalletTid \in users[WalletUser].joinedTournaments
  /\ ~hasJoined(tournaments[WalletTid], WalletUser)

\* C29: isJoining is set exactly while a join of the client is outstanding
\* and is false after every exit path, and while it is set no invocation
\* of the handler takes effect: the outstanding join only moves from its
\* debit to its participant write and then ends, so it debits once.
C29_OneJoinAtATime ==
  /\ [](\A c \in Clients : clients[c].isJoining <=> clients[c].pc # "idle")
  /\ [][\A c \in Clients :
          clients[c].isJoining =>
            \/ /\ clients'[c].pc = clients[c].pc
               /\ clients'[c].join = clients[c].join
               /\ users' = users
            \/ /\ clients[c].pc = "debit" /\ clients'[c].pc = "append"
               /\ clients'[c].join = clients[c].join
            \/ /\ clients'[c].pc = "idle" /\ ~clients'[c].isJoining
               /\ users' = users]_vars

C29_Witness ==
  /\ clients[WalletClient].isJoining
  /\ clients[WalletClient].showJoinModal
  /\ clients[WalletClient].pc = "append"
  /\ users[WalletUser].walletBalance = WalletInitBalance - WalletEntryFee

(***************************************************************************)
(* Participants                                                            *)
(***************************************************************************)
\* C30: the admin's remove takes exactly the selected participant out of
\* the stored list and leaves every other stored participant in place,
\* those who joined after the admin opened the tournament included; every
\* other step (pass, admin edit, join) keeps each stored participant record.
C30_RemoveTakesOnlySelected ==
  [][IF \E i \in 1..NumUsers : handleRemoveParticipant(i)
       THEN \E i \in 1..Len(mgmt.selectedParticipants) :
              /\ handleRemoveParticipant(i)
              /\ \A t \in Tids :
                   tournaments'[t].participants =
                     SelectSeq(tournaments[t].participants,
                               LAMBDA p : \/ t # mgmt.selectedTournament
                                          \/ p # mgmt.selectedParticipants[i])
       ELSE \A t \in Tids :
              /\ Len(tournaments'[t].participants) >= Len(tournaments[t].participants)
              /\ \A k \in 1..Len(tournaments[t].participants) :
                   tournaments'[t].participants[k] = tournaments[t].participants[k]]_vars


====
